---------------------------- MODULE Spec2Model ----------------------------
(***************************************************************************)
(* Calendar ingestion pipeline of the BlessThun timeline server.           *)
(*                                                                         *)
(* The repository holds four generations of the same server:               *)
(*   "plain"   src/server.js              iCal only, no filtering          *)
(*   "rename"  src/unnamed/part_000       iCal only, keep-all-and-rename   *)
(*   "matches" src/unnamed/part_001:1-345 iCal only, keep-only-matches     *)
(*   "json"    src/unnamed/part_001:347-  JSON primary, iCal fallback      *)
(* The variable `variant` fixes which of them is running.                  *)
(*                                                                         *)
(* TEXT.  A JavaScript string is a sequence of atoms.  An atom stands for  *)
(* a fixed, non-empty run of characters that the code never looks inside:  *)
(* "CR", "LF", "SP", "HT" are the four white-space characters, ":" "," "<" *)
(* ">" "-" and the digits are themselves, any other atom is a word.        *)
(* Concatenation, search, prefix tests, splitting and joining are computed *)
(* on the atom sequence exactly as the code computes them on characters.   *)
(*                                                                         *)
(* SCHEDULING.  Node runs one macrotask (an HTTP request handler, a timer  *)
(* callback, the arrival of an upstream response) and then every promise   *)
(* continuation it made runnable, before it takes the next macrotask.      *)
(* Each action below is one macrotask together with those continuations:   *)
(* a fetch cycle therefore advances from one network wait to the next.     *)
(* The arrival of a response stands for both awaits of a request (fetch,   *)
(* then response.text() or response.json()): the code reads nothing of the *)
(* process state between the two.                                          *)
(***************************************************************************)
EXTENDS Integers, Sequences, FiniteSets, Bags, TLC

\* ------------------------------------------------------------------ bounds
MaxCycles == 2
MaxClock == 2

\* --------------------------------------------------------- JavaScript values
\* undefined, where a text is expected (a missing field, a body value that
\* is no string)
Undef == <<"#undefined">>
EmptyStr == << >>

\* !x for a text or undefined
Falsy(x) == x = Undef \/ x = EmptyStr

\* `${x}` : undefined is rendered as the word undefined
Str(x) == IF x = Undef THEN <<"undefined">> ELSE x

\* lastFetch: null is NullTime, an ISO timestamp is the clock value it shows
NullTime == 0

\* a || b
Or(a, b) == IF Falsy(a) THEN b ELSE a

\* ---------------------------------------------------------------- text
Cat(s, t) == s \o t

IsPrefix(p, s) == Len(p) <= Len(s) /\ SubSeq(s, 1, Len(p)) = p

\* String.prototype.startsWith
StartsWith(s, p) == IsPrefix(p, s)

\* String.prototype.includes
Includes(s, p) == \E i \in 0..(Len(s) - Len(p)) : SubSeq(s, i + 1, i + Len(p)) = p

\* String.prototype.substring(n) with n counted in atoms
DropFirst(s, n) == IF n >= Len(s) THEN << >> ELSE SubSeq(s, n + 1, Len(s))

\* String.prototype.substring(0, n)
TakeFirst(s, n) == IF n >= Len(s) THEN s ELSE SubSeq(s, 1, n)

IsSpace(a) == a \in {"SP", "HT", "CR", "LF"}

RECURSIVE TrimLeft(_)
TrimLeft(s) == IF s # << >> /\ IsSpace(Head(s)) THEN TrimLeft(Tail(s)) ELSE s

RECURSIVE TrimRight(_)
TrimRight(s) ==
    IF s # << >> /\ IsSpace(s[Len(s)]) THEN TrimRight(SubSeq(s, 1, Len(s) - 1)) ELSE s

\* String.prototype.trim
Trim(s) == TrimRight(TrimLeft(s))

\* /i : the words of the model that differ only in letter case
Lower(a) == CASE a = "BlessThun" -> "blessthun"
              [] a = "BLESSTHUN" -> "blessthun"
              [] a = "Youth" -> "youth"
              [] a = "Revival" -> "revival"
              [] OTHER -> a

LowerText(s) == [i \in 1..Len(s) |-> Lower(s[i])]

\* ------------------------------------------------------------ literals
CRLF == <<"CR", "LF">>
BEGIN_VCALENDAR == <<"BEGIN", ":", "VCALENDAR">>
END_VCALENDAR == <<"END", ":", "VCALENDAR">>
BEGIN_VEVENT == <<"BEGIN", ":", "VEVENT">>
END_VEVENT == <<"END", ":", "VEVENT">>
SUMMARY_COLON == <<"SUMMARY", ":">>
BlessThunText == <<"BlessThun">>
YouthRevivalText == <<"Youth", "SP", "Revival">>

EXCLUDE_FILTERS == { <<"Revival", "SP", "Champions", "SP", "League", "SP", "Night">> }

Ids == {"blessthun", "youth"}
IdOrder == <<"blessthun", "youth">>
Filename(id) == IF id = "blessthun" THEN "blessthun.ics" ELSE "youth.ics"

\* PRIMARY_FILTERS / EVENT_FILTERS
PRIMARY_FILTERS(filename) ==
    IF filename = "blessthun.ics" THEN BlessThunText ELSE YouthRevivalText


\* ------------------------------------------------ lines of an iCal document
\* icalData.replace(/\r\n[ \t]/g, '')
RECURSIVE RemoveCrLfFold(_)
RemoveCrLfFold(s) ==
    IF s = << >> THEN << >>
    ELSE IF Len(s) >= 3 /\ s[1] = "CR" /\ s[2] = "LF" /\ s[3] \in {"SP", "HT"}
         THEN RemoveCrLfFold(DropFirst(s, 3))
         ELSE <<Head(s)>> \o RemoveCrLfFold(Tail(s))

\* .replace(/\n[ \t]/g, '')
RECURSIVE RemoveLfFold(_)
RemoveLfFold(s) ==
    IF s = << >> THEN << >>
    ELSE IF Len(s) >= 2 /\ s[1] = "LF" /\ s[2] \in {"SP", "HT"}
         THEN RemoveLfFold(DropFirst(s, 2))
         ELSE <<Head(s)>> \o RemoveLfFold(Tail(s))

Unfold(icalData) == RemoveLfFold(RemoveCrLfFold(icalData))

\* s.split(/\r\n|\n|\r/): the lines of s, `cur` being the line under construction
RECURSIVE SplitFrom(_, _)
SplitFrom(s, cur) ==
    IF s = << >> THEN <<cur>>
    ELSE IF Len(s) >= 2 /\ s[1] = "CR" /\ s[2] = "LF"
         THEN <<cur>> \o SplitFrom(DropFirst(s, 2), << >>)
    ELSE IF s[1] \in {"CR", "LF"}
         THEN <<cur>> \o SplitFrom(Tail(s), << >>)
    ELSE SplitFrom(Tail(s), Append(cur, Head(s)))

SplitLines(s) == SplitFrom(s, << >>)

\* lines.join('\r\n')
RECURSIVE JoinCrLf(_)
JoinCrLf(lines) ==
    IF lines = << >> THEN << >>
    ELSE IF Len(lines) = 1 THEN lines[1]
    ELSE lines[1] \o CRLF \o JoinCrLf(Tail(lines))

\* line.split(':').slice(1).join(':') : the text after the first colon
RECURSIVE AfterFirstColon(_)
AfterFirstColon(line) ==
    IF line = << >> THEN << >>
    ELSE IF Head(line) = ":" THEN Tail(line)
    ELSE AfterFirstColon(Tail(line))

\* arr[idx] = v on a JavaScript array, idx counted from 0: an index past the
\* end leaves holes, which the spread and join('\r\n') render as empty lines
SetAt(arr, idx, v) ==
    [i \in 1..(IF idx + 1 > Len(arr) THEN idx + 1 ELSE Len(arr)) |->
        IF i = idx + 1 THEN v ELSE IF i <= Len(arr) THEN arr[i] ELSE << >>]

\* ------------------------------------------------------------ cleanEventName
\* part_000: the rename generation
CleanEventNameRename(name, filterText) ==
    IF Falsy(name) THEN name
    ELSE IF filterText = BlessThunText /\ Includes(name, BlessThunText) THEN BlessThunText
    ELSE IF filterText = YouthRevivalText /\ Includes(name, YouthRevivalText)
         THEN YouthRevivalText
    ELSE name

\* part_001:90 : the keep-only-matches generation
CleanEventNameMatches(name, filterText) ==
    IF Falsy(name) THEN name
    ELSE IF filterText = BlessThunText THEN BlessThunText
    ELSE IF filterText = YouthRevivalText THEN YouthRevivalText
    ELSE name

\* part_001:412 : the JSON generation; /^BlessThun$/i and /^Youth Revival\s*$/i
CleanEventNameJson(name) ==
    IF Falsy(name) THEN name
    ELSE LET t == Trim(name) IN
         IF LowerText(t) = LowerText(BlessThunText) THEN BlessThunText
         ELSE IF LowerText(TrimRight(t)) = LowerText(YouthRevivalText) THEN YouthRevivalText
         ELSE t

\* ---------------------------------------------------------- filterIcalEvents
\* The loop state: out = outputLines, inEvent, cur = currentEventLines,
\* summary = currentEventSummary, idx = summaryLineIndex (from 0, -1 for none).
FilterInit == [out |-> << >>, inEvent |-> FALSE, cur |-> << >>,
               summary |-> << >>, idx |-> -1]

ShouldExclude(summary) == \E ex \in EXCLUDE_FILTERS : Includes(summary, ex)

\* one iteration of the loop of part_000:76 and part_001:523; `json` tells
\* which cleanEventName the generation calls
FilterStepRename(st, line, filterText, json) ==
    IF line = BEGIN_VEVENT
    THEN [st EXCEPT !.inEvent = TRUE, !.cur = <<line>>, !.summary = << >>, !.idx = -1]
    ELSE IF line = END_VEVENT
    THEN LET lines1 == Append(st.cur, line)
             lines2 == IF st.idx >= 0 /\ ~Falsy(filterText)
                          /\ Includes(st.summary, filterText)
                       THEN SetAt(lines1, st.idx,
                                  SUMMARY_COLON \o
                                  (IF json THEN CleanEventNameJson(st.summary)
                                   ELSE CleanEventNameRename(st.summary, filterText)))
                       ELSE lines1
         IN  [st EXCEPT !.out = IF ShouldExclude(st.summary) THEN st.out
                                 ELSE st.out \o lines2,
                        !.inEvent = FALSE, !.cur = << >>]
    ELSE IF st.inEvent
    THEN IF StartsWith(line, SUMMARY_COLON)
         THEN [st EXCEPT !.cur = Append(st.cur, line),
                         !.summary = DropFirst(line, 2),
                         !.idx = Len(st.cur)]
         ELSE [st EXCEPT !.cur = Append(st.cur, line)]
    ELSE [st EXCEPT !.out = Append(st.out, line)]

\* one iteration of the loop of part_001:117 (keep only matches)
FilterStepMatches(st, line, filterText) ==
    IF line = BEGIN_VEVENT
    THEN [st EXCEPT !.inEvent = TRUE, !.cur = <<line>>, !.summary = << >>, !.idx = -1]
    ELSE IF line = END_VEVENT
    THEN LET lines1 == Append(st.cur, line)
             lines2 == IF st.idx >= 0
                       THEN SetAt(lines1, st.idx,
                                  SUMMARY_COLON \o CleanEventNameMatches(st.summary, filterText))
                       ELSE lines1
         IN  [st EXCEPT !.out = IF Includes(st.summary, filterText)
                                 THEN st.out \o lines2 ELSE st.out,
                        !.inEvent = FALSE, !.cur = << >>]
    ELSE IF st.inEvent
    THEN IF StartsWith(line, <<"SUMMARY">>)
         THEN [st EXCEPT !.cur = Append(st.cur, line),
                         !.summary = AfterFirstColon(line),
                         !.idx = Len(st.cur)]
         ELSE [st EXCEPT !.cur = Append(st.cur, line)]
    ELSE [st EXCEPT !.out = Append(st.out, line)]

RECURSIVE FilterLoopRename(_, _, _, _)
FilterLoopRename(st, lines, filterText, json) ==
    IF lines = << >> THEN st
    ELSE FilterLoopRename(FilterStepRename(st, Head(lines), filterText, json),
                          Tail(lines), filterText, json)

RECURSIVE FilterLoopMatches(_, _, _)
FilterLoopMatches(st, lines, filterText) ==
    IF lines = << >> THEN st
    ELSE FilterLoopMatches(FilterStepMatches(st, Head(lines), filterText),
                           Tail(lines), filterText)

\* filterIcalEvents of part_000 (json = FALSE) and of part_001:514 (json = TRUE)
FilterIcalEventsRename(icalData, filterText, json) ==
    JoinCrLf(FilterLoopRename(FilterInit, SplitLines(Unfold(icalData)), filterText, json).out)

\* filterIcalEvents of part_001:107
FilterIcalEventsMatches(icalData, filterText) ==
    IF Falsy(filterText) THEN icalData
    ELSE JoinCrLf(FilterLoopMatches(FilterInit, SplitLines(icalData), filterText).out)

\* what fetchCalendar / fetchFromIcal of generation v writes for a body
\* (server.js writes the body as it is)
FilterIcalEvents(v, icalData, filterText) ==
    CASE v = "rename" -> FilterIcalEventsRename(icalData, filterText, FALSE)
      [] v = "json" -> FilterIcalEventsRename(icalData, filterText, TRUE)
      [] v = "matches" -> FilterIcalEventsMatches(icalData, filterText)
      [] OTHER -> icalData


\* ---------------------------------------------------------- jsonEventsToIcal
Digits == {"0", "1", "2", "3", "4", "5", "6", "7", "8", "9"}

\* s.replace(/[-: ]/g, '')
RECURSIVE StripSeparators(_)
StripSeparators(s) ==
    IF s = << >> THEN << >>
    ELSE IF Head(s) \in {"-", ":", "SP"} THEN StripSeparators(Tail(s))
    ELSE <<Head(s)>> \o StripSeparators(Tail(s))

\* s.replace(/^(\d{8})(\d{6})$/, '$1T$2')
InsertT(s) ==
    IF Len(s) = 14 /\ \A i \in 1..14 : s[i] \in Digits
    THEN SubSeq(s, 1, 8) \o <<"T">> \o SubSeq(s, 9, 14)
    ELSE s

\* s.replace(/,/g, '\\,')
RECURSIVE EscapeCommas(_)
EscapeCommas(s) ==
    IF s = << >> THEN << >>
    ELSE IF Head(s) = "," THEN <<"\\", ",">> \o EscapeCommas(Tail(s))
    ELSE <<Head(s)>> \o EscapeCommas(Tail(s))

\* s.replace(/\n/g, '\\n')
RECURSIVE EscapeNewlines(_)
EscapeNewlines(s) ==
    IF s = << >> THEN << >>
    ELSE IF Head(s) = "LF" THEN <<"\\", "n">> \o EscapeNewlines(Tail(s))
    ELSE <<Head(s)>> \o EscapeNewlines(Tail(s))

\* s.replace(/<[^>]+>/g, '')
RECURSIVE StripTags(_)
StripTags(s) ==
    IF s = << >> THEN << >>
    ELSE IF Head(s) = "<" /\ \E j \in 3..Len(s) : s[j] = ">" /\ \A k \in 2..(j - 1) : s[k] # ">"
         THEN LET j == CHOOSE j \in 3..Len(s) : s[j] = ">" /\ \A k \in 2..(j - 1) : s[k] # ">"
              IN  StripTags(DropFirst(s, j))
    ELSE <<Head(s)>> \o StripTags(Tail(s))

\* EXCLUDE_FILTERS.some(ex => evt.title && evt.title.includes(ex))
EventExcluded(evt) ==
    \E ex \in EXCLUDE_FILTERS : ~Falsy(evt.title) /\ Includes(evt.title, ex)

\* the lines one event adds to the document (part_001:443-473)
EventBlock(evt) ==
    LET name == CleanEventNameJson(evt.title)
        dates == IF evt.allDay
                 THEN <<"DTSTART", ";", "VALUE=DATE", ":">>
                        \o TakeFirst(StripSeparators(evt.start), 8) \o CRLF
                      \o <<"DTEND", ";", "VALUE=DATE", ":">>
                        \o TakeFirst(StripSeparators(evt.end), 8) \o CRLF
                 ELSE <<"DTSTART", ";", "TZID=Europe/Zurich", ":">>
                        \o InsertT(StripSeparators(evt.start)) \o CRLF
                      \o <<"DTEND", ";", "TZID=Europe/Zurich", ":">>
                        \o InsertT(StripSeparators(evt.end)) \o CRLF
        location == IF Falsy(evt.where) THEN << >>
                    ELSE <<"LOCATION", ":">> \o EscapeCommas(evt.where) \o CRLF
        desc == IF Falsy(evt.description) THEN << >> ELSE Trim(StripTags(evt.description))
        description == IF desc = << >> THEN << >>
                       ELSE <<"DESCRIPTION", ":">> \o EscapeNewlines(desc) \o CRLF
    IN  BEGIN_VEVENT \o CRLF
        \o <<"UID", ":">> \o Str(IF Falsy(evt.uid) THEN evt.id ELSE evt.uid) \o CRLF
        \o SUMMARY_COLON \o Str(name) \o CRLF
        \o dates \o location \o description
        \o END_VEVENT \o CRLF

\* the loop without its exclusion test
RECURSIVE EventBlocksKeepingAll(_)
EventBlocksKeepingAll(jsonEvents) ==
    IF jsonEvents = << >> THEN << >>
    ELSE EventBlock(Head(jsonEvents)) \o EventBlocksKeepingAll(Tail(jsonEvents))

RECURSIVE EventBlocks(_)
EventBlocks(jsonEvents) ==
    IF jsonEvents = << >> THEN << >>
    ELSE (IF EventExcluded(Head(jsonEvents)) THEN << >> ELSE EventBlock(Head(jsonEvents)))
         \o EventBlocks(Tail(jsonEvents))

JsonEventsToIcal(jsonEvents, calendarName) ==
    BEGIN_VCALENDAR \o CRLF
    \o <<"VERSION", ":", "2.0">> \o CRLF
    \o <<"PRODID", ":", "-//", "BlessThun", "SP", "Timeline", "//", calendarName, "//", "EN">> \o CRLF
    \o <<"X-WR-TIMEZONE", ":", "Europe/Zurich">> \o CRLF
    \o EventBlocks(jsonEvents)
    \o END_VCALENDAR \o CRLF

\* evt.start.replace / evt.end.replace on undefined is a TypeError, raised
\* inside the try block of fetchFromJsonApi
JsonEventsToIcalThrows(jsonEvents) ==
    \E i \in 1..Len(jsonEvents) :
        ~EventExcluded(jsonEvents[i])
        /\ (jsonEvents[i].start = Undef \/ jsonEvents[i].end = Undef)


\* ------------------------------------------------------------------ config
Variants == {"plain", "rename", "matches", "json"}

\* the two generations with the admin routes (server.js:165, part_001:260)
HasAdmin(v) == v \in {"plain", "matches"}

UrlOf(cfg, id) == IF id = "blessthun" THEN cfg.blessthunUrl ELSE cfg.youthUrl

\* config.json on disk: absent, unparsable, or an object whose missing keys
\* are Undef (a missing lastFetch is NullTime)
NoFile == [kind |-> "none", blessthunUrl |-> Undef, youthUrl |-> Undef, lastFetch |-> NullTime]
CorruptFile == [kind |-> "corrupt", blessthunUrl |-> Undef, youthUrl |-> Undef, lastFetch |-> NullTime]

\* loadConfig of server.js:23, part_000:19 and part_001:24
LoadConfigPlain(environment, file) ==
    IF file.kind = "json"
    THEN [blessthunUrl |-> file.blessthunUrl, youthUrl |-> file.youthUrl,
          lastFetch |-> file.lastFetch]
    ELSE [blessthunUrl |-> IF Falsy(environment.blessthun) THEN EmptyStr
                           ELSE environment.blessthun,
          youthUrl |-> IF Falsy(environment.youth) THEN EmptyStr ELSE environment.youth,
          lastFetch |-> NullTime]

\* loadConfig of part_001:377
LoadConfigJson(environment, file) ==
    LET fileConfig == IF file.kind = "json" THEN file ELSE NoFile
        pick(e, f) == IF ~Falsy(e) THEN e ELSE IF ~Falsy(f) THEN f ELSE EmptyStr
    IN  [blessthunUrl |-> pick(environment.blessthun, fileConfig.blessthunUrl),
         youthUrl |-> pick(environment.youth, fileConfig.youthUrl),
         lastFetch |-> fileConfig.lastFetch]

LoadConfig(v, environment, file) ==
    IF v = "json" THEN LoadConfigJson(environment, file)
    ELSE LoadConfigPlain(environment, file)

\* saveConfig: JSON.stringify(config) replaces the file
SaveConfig(cfg) ==
    [kind |-> "json", blessthunUrl |-> cfg.blessthunUrl, youthUrl |-> cfg.youthUrl,
     lastFetch |-> cfg.lastFetch]

\* ----------------------------------------------------------------- adminAuth
ADMIN_USER == <<"admin">>
ADMIN_PASS == <<"changeme">>

\* credentials.split(':') : the pieces between colons
RECURSIVE SplitColonFrom(_, _)
SplitColonFrom(s, cur) ==
    IF s = << >> THEN <<cur>>
    ELSE IF Head(s) = ":" THEN <<cur>> \o SplitColonFrom(Tail(s), << >>)
    ELSE SplitColonFrom(Tail(s), Append(cur, Head(s)))

\* header: [scheme, cred]; scheme "none" is a request without Authorization
AdminAuth(header) ==
    IF header.scheme # "Basic" THEN FALSE
    ELSE LET parts == SplitColonFrom(header.cred, << >>)
             username == parts[1]
             password == IF Len(parts) >= 2 THEN parts[2] ELSE Undef
         IN  username = ADMIN_USER /\ password = ADMIN_PASS


\* ------------------------------------------------------------------- state
VARIABLES
    variant,     \* which generation of the server runs
    environment, \* BLESSTHUN_ICAL_URL, YOUTH_ICAL_URL (Undef: not set)
    phase,       \* "boot" before loadConfig, "loaded", "listening"
    config,      \* the in-memory config object
    configFile,  \* config.json
    files,       \* the cached document of each identity (NoDoc: no file)
    clock,       \* the time new Date() showed when it was last read
    cyc,         \* the calls of fetchAllCalendars in flight (a bag)
    last,        \* history: what the last macrotask did
    arg,         \* the argument of a function called on its own (NoCall: none)
    ret          \* what that function computed (NoCall: not called)

vars == <<variant, environment, phase, config, configFile, files, clock, cyc, last,
          arg, ret>>

\* the server runs as a whole: no function is called on its own
NoCall == <<"#nocall">>

NoDoc == <<"#absent">>

\* the timeout option of node-fetch (server.js:78); 0 is its default: none
FETCH_TIMEOUT == 30000
NoTimeout == 0

RequestTimeout(v) == IF v \in {"plain", "matches"} THEN FETCH_TIMEOUT ELSE NoTimeout

\* buildJsonUrl
BuildJsonUrl(type) == <<"load.php?embed&calendar=", type, "&start=2025-01-01&end=2030-12-31">>

\* ----------------------------------------------------- what upstream can send
Url1 == <<"https://one.example/cal.ics">>
Url2 == <<"https://two.example/cal.ics">>

\* a calendar with one event of each family and one excluded event
CalendarBody ==
    BEGIN_VCALENDAR \o CRLF
    \o BEGIN_VEVENT \o CRLF
    \o SUMMARY_COLON \o <<"BlessThun", "SP", "Party">> \o CRLF
    \o END_VEVENT \o CRLF
    \o BEGIN_VEVENT \o CRLF
    \o SUMMARY_COLON \o <<"Youth", "SP", "Revival", "SP", "Camp">> \o CRLF
    \o END_VEVENT \o CRLF
    \o END_VCALENDAR

\* a page that is no calendar, sent with a success status
NoMarkerBody == <<"<", "html", ">", "Login", "<", "/html", ">">>

IcalBodies == {CalendarBody, NoMarkerBody}

IcalOutcomes ==
    {[kind |-> "neterr", body |-> EmptyStr], [kind |-> "status", body |-> EmptyStr]}
    \cup {[kind |-> "body", body |-> b] : b \in IcalBodies}

TimedEvent ==
    [uid |-> <<"u-1">>, id |-> <<"17">>, title |-> <<"BlessThun", "SP">>, allDay |-> FALSE,
     start |-> <<"2","0","2","6","-","0","2","-","2","2","SP","1","7",":","0","0",":","0","0">>,
     end |-> <<"2","0","2","6","-","0","2","-","2","2","SP","1","9",":","0","0",":","0","0">>,
     where |-> Undef, description |-> Undef]

BrokenEvent == [TimedEvent EXCEPT !.start = Undef]

\* the parsed JSON payload: a list of events or something else
JsonPayloads ==
    {[list |-> FALSE, events |-> << >>],
     [list |-> TRUE, events |-> <<TimedEvent>>],
     [list |-> TRUE, events |-> <<BrokenEvent>>]}

JsonOutcomes ==
    {[kind |-> k, payload |-> [list |-> FALSE, events |-> << >>]] :
        k \in {"neterr", "status", "badjson"}}
    \cup {[kind |-> "body", payload |-> p] : p \in JsonPayloads}

\* --------------------------------------------------------- one fetch cycle
\* A call of fetchAllCalendars that waits for a response.
\* pc: "json" / "ical" the response it waits for; idx: the identity at work;
\* timeout: the timeout of the request in flight; results: what fetchCalendar
\* returned so far; json: what fetchFromJsonApi returned (history); stored:
\* for a call made by POST /api/admin/config, the URLs the update supplied
\* and stored, for the identities whose turn has not come (history); reqs:
\* the requests issued so far (history); rank: the place of the call among
\* the calls in flight, in the order in which they began (history); began:
\* the URLs config held when the call began, for the identities whose turn
\* has not come (history)
NewCycle ==
    [pc |-> "start", idx |-> 0, timeout |-> NoTimeout,
     results |-> [id \in Ids |-> "none"], json |-> [id \in Ids |-> "none"],
     stored |-> [id \in Ids |-> Undef], reqs |-> << >>, rank |-> 0,
     began |-> [id \in Ids |-> Undef]]

\* the calls in flight once the call of rank r has returned: those that
\* began after it move up one place
Renumber(calls, r) ==
    BagOfAll(LAMBDA c : IF c.rank > r THEN [c EXCEPT !.rank = @ - 1] ELSE c, calls)

\* the request a macrotask issued: the identity, the path, the URL and, on
\* the iCal path of a call made by an admin update, the URL that update had
\* stored for the identity
NoRequest == [id |-> "-", path |-> "-", url |-> EmptyStr, stored |-> Undef, began |-> Undef]

Request(rec, k, path, url) ==
    [rec |-> [rec EXCEPT !.pc = path, !.idx = k,
                         !.timeout = RequestTimeout(variant),
                         !.stored[IdOrder[k]] = IF path = "ical" THEN Undef ELSE @,
                         !.began[IdOrder[k]] = IF path = "ical" THEN Undef ELSE @,
                         !.reqs = Append(@, [id |-> IdOrder[k], path |-> path])],
     issued |-> [id |-> IdOrder[k], path |-> path, url |-> url,
                 stored |-> IF path = "ical" THEN rec.stored[IdOrder[k]] ELSE Undef,
                 began |-> IF path = "ical" THEN rec.began[IdOrder[k]] ELSE Undef]]

\* fetchAllCalendars from its k-th identity on, up to the next network wait:
\* the call of fetchCalendar for identity k, which issues a request or, with
\* no URL, returns false so that the next identity follows at once; past the
\* last identity the cycle is ready to take its timestamp
RECURSIVE FetchFrom(_, _, _)
FetchFrom(rec, k, cfg) ==
    IF k > Len(IdOrder) THEN [rec |-> [rec EXCEPT !.pc = "finish"], issued |-> NoRequest]
    ELSE IF variant = "json" THEN Request(rec, k, "json", BuildJsonUrl(IdOrder[k]))
    ELSE IF Falsy(UrlOf(cfg, IdOrder[k]))
         THEN FetchFrom([rec EXCEPT !.idx = k, !.results[IdOrder[k]] = "failed",
                                    !.stored[IdOrder[k]] = Undef,
                                    !.began[IdOrder[k]] = Undef],
                        k + 1, cfg)
    ELSE Request(rec, k, "ical", UrlOf(cfg, IdOrder[k]))

\* history of the last macrotask: its kind ("call" / "admin" a call of
\* fetchAllCalendars, "admin401" a refused update, "ical" / "json" the end
\* of such a request); for the end of a request the identity, what upstream
\* had sent and what fetchCalendar then returned for the identity ("-" while
\* the fallback request is out); the request the macrotask issued; whether
\* it ended a cycle, and then the results fetchAllCalendars returned; the
\* rank of the call it belongs to (history); the Authorization header of the
\* request to an admin route it handled (history)
NoHeader == [scheme |-> "-", cred |-> EmptyStr]

Note(kind, upstream) ==
    [kind |-> kind, id |-> "-", upstream |-> upstream, result |-> "-",
     issued |-> NoRequest, finished |-> FALSE, results |-> [id \in Ids |-> "none"],
     rank |-> 0, header |-> NoHeader]

\* a faulty Settle: a cycle in which no identity succeeded leaves lastFetch
\* and config.json as they were
SettleUnlessAllFailed(rest, step, cfg, saved, note) ==
    IF step.rec.pc = "finish"
    THEN \E now \in clock..MaxClock :
         LET some == \E id \in Ids : step.rec.results[id] = "ok"
             stamped == IF some THEN [cfg EXCEPT !.lastFetch = now] ELSE cfg
         IN  /\ clock' = now
             /\ cyc' = Renumber(rest, step.rec.rank)
             /\ config' = stamped
             /\ configFile' = IF some THEN SaveConfig(stamped) ELSE saved
             /\ last' = [note EXCEPT !.finished = TRUE, !.results = step.rec.results,
                              !.rank = step.rec.rank]
    ELSE /\ clock' = clock
         /\ cyc' = rest (+) SetToBag({step.rec})
         /\ config' = cfg
         /\ configFile' = saved
         /\ last' = [note EXCEPT !.issued = step.issued, !.rank = step.rec.rank]

\* a faulty Settle: the timestamp is one the clock showed at some earlier
\* reading, as if it had been taken before the cycle's requests
SettleStampedEarlier(rest, step, cfg, saved, note) ==
    IF step.rec.pc = "finish"
    THEN \E now \in clock..MaxClock, taken \in 1..MaxClock :
         /\ taken <= now
         /\ clock' = now
         /\ cyc' = Renumber(rest, step.rec.rank)
         /\ config' = [cfg EXCEPT !.lastFetch = taken]
         /\ configFile' = SaveConfig([cfg EXCEPT !.lastFetch = taken])
         /\ last' = [note EXCEPT !.finished = TRUE, !.results = step.rec.results,
                              !.rank = step.rec.rank]
    ELSE /\ clock' = clock
         /\ cyc' = rest (+) SetToBag({step.rec})
         /\ config' = cfg
         /\ configFile' = saved
         /\ last' = [note EXCEPT !.issued = step.issued, !.rank = step.rec.rank]

\* The macrotask leaves one cycle at step.rec, the other cycles being rest;
\* cfg and saved are the config and its file as the macrotask left them
\* before the cycle's end.  A cycle past its last identity takes its
\* timestamp, sets config.lastFetch and calls saveConfig; the clock has not
\* gone backwards since it was last read.
Settle(rest, step, cfg, saved, note) ==
    IF step.rec.pc = "finish"
    THEN \E now \in clock..MaxClock :
         /\ clock' = now
         /\ cyc' = Renumber(rest, step.rec.rank)
         /\ config' = [cfg EXCEPT !.lastFetch = now]
         /\ configFile' = SaveConfig([cfg EXCEPT !.lastFetch = now])
         /\ last' = [note EXCEPT !.finished = TRUE, !.results = step.rec.results,
                              !.rank = step.rec.rank]
    ELSE /\ clock' = clock
         /\ cyc' = rest (+) SetToBag({step.rec})
         /\ config' = cfg
         /\ configFile' = saved
         /\ last' = [note EXCEPT !.issued = step.issued, !.rank = step.rec.rank]

\* a call of fetchAllCalendars; MaxCycles bounds the calls in flight
StartCycleNoted(note, stored, cfg, saved) ==
    /\ BagCardinality(cyc) < MaxCycles
    /\ Settle(cyc, FetchFrom([NewCycle EXCEPT !.stored = stored,
                                             !.rank = BagCardinality(cyc) + 1,
                                             !.began = [id \in Ids |-> UrlOf(cfg, id)]],
                         1, cfg),
              cfg, saved, note)
    /\ UNCHANGED <<variant, environment, files, arg, ret>>

StartCycle(kind, stored, cfg, saved) == StartCycleNoted(Note(kind, "-"), stored, cfg, saved)

\* ------------------------------------------------------------------ triggers
\* the top level of the module: let config = loadConfig()
Boot ==
    /\ phase = "boot"
    /\ phase' = "loaded"
    /\ config' = LoadConfig(variant, environment, configFile)
    /\ last' = Note("boot", "-")
    /\ UNCHANGED <<variant, environment, configFile, files, clock, cyc, arg, ret>>

\* the callback of app.listen: the initial fetch, and the interval is set
Listen ==
    /\ phase = "loaded"
    /\ phase' = "listening"
    /\ StartCycle("call", NewCycle.stored, config, configFile)

\* setInterval(fetchAllCalendars, ...)
Timer ==
    /\ phase = "listening"
    /\ UNCHANGED phase
    /\ StartCycle("call", NewCycle.stored, config, configFile)

\* POST /api/resync
Resync ==
    /\ phase = "listening"
    /\ UNCHANGED phase
    /\ StartCycle("call", NewCycle.stored, config, configFile)

AdminHeaders ==
    {[scheme |-> "none", cred |-> EmptyStr],
     [scheme |-> "Basic", cred |-> <<"admin", ":", "changeme">>],
     [scheme |-> "Basic", cred |-> <<"admin", ":", "guess">>],
     [scheme |-> "Basic", cred |-> <<"admin", ":", "changeme", ":", "guess">>]}

\* request bodies: a field is a string, or (Undef) anything else
AdminBodies ==
    {[blessthunUrl |-> Undef, youthUrl |-> Undef],
     [blessthunUrl |-> Url1, youthUrl |-> Url1],
     [blessthunUrl |-> <<"https://two.example/cal.ics", "SP">>,
      youthUrl |-> <<"SP", "https://two.example/cal.ics", "SP">>]}

\* the assignments of POST /api/admin/config
UpdatedConfig(cfg, body) ==
    [cfg EXCEPT !.blessthunUrl = IF body.blessthunUrl # Undef THEN Trim(body.blessthunUrl)
                                 ELSE @,
                !.youthUrl = IF body.youthUrl # Undef THEN Trim(body.youthUrl) ELSE @]

\* the URLs an update supplied, as it stored them
Supplied(body) ==
    [id \in Ids |-> IF UrlOf(body, id) # Undef THEN Trim(UrlOf(body, id)) ELSE Undef]

\* a request to an admin route that adminAuth answers with 401
AdminRefused(header) ==
    /\ phase = "listening"
    /\ HasAdmin(variant)
    /\ ~AdminAuth(header)
    /\ last' = [Note("admin401", "-") EXCEPT !.header = header]
    /\ UNCHANGED <<variant, environment, phase, config, configFile, files, clock, cyc,
                   arg, ret>>

\* POST /api/admin/config, past adminAuth
AdminUpdate(header, body) ==
    /\ phase = "listening"
    /\ HasAdmin(variant)
    /\ AdminAuth(header)
    /\ UNCHANGED phase
    /\ StartCycleNoted([Note("admin", "-") EXCEPT !.header = header],
                       Supplied(body), UpdatedConfig(config, body),
                       SaveConfig(UpdatedConfig(config, body)))


\* ------------------------------------------------------- upstream responses
\* the checks of fetchCalendar / fetchFromIcal on a response: "calendar" when
\* the body is filtered and written, otherwise the reason of the throw
IcalClass(v, outcome) ==
    IF outcome.kind # "body" THEN outcome.kind
    ELSE IF v \in {"plain", "matches"} /\ ~Includes(outcome.body, BEGIN_VCALENDAR)
         THEN "nomarker"
    ELSE "calendar"

\* the checks of fetchFromJsonApi on a response: "list" when the events are
\* converted and written
JsonClass(outcome) ==
    IF outcome.kind # "body" THEN outcome.kind
    ELSE IF ~outcome.payload.list THEN "notlist"
    ELSE IF JsonEventsToIcalThrows(outcome.payload.events) THEN "throws"
    ELSE "list"

\* what upstream sent, in the terms of the error taxonomy: "unreachable" (no
\* response, or none in time), "rejected" (a non-success status), "malformed"
\* (a payload that is no calendar, no list of complete records), or "good"
IcalUpstream(outcome) ==
    IF outcome.kind = "neterr" THEN "unreachable"
    ELSE IF outcome.kind = "status" THEN "rejected"
    ELSE IF ~Includes(outcome.body, BEGIN_VCALENDAR) THEN "malformed"
    ELSE "good"

JsonUpstream(outcome) ==
    IF outcome.kind = "neterr" THEN "unreachable"
    ELSE IF outcome.kind = "status" THEN "rejected"
    ELSE IF JsonClass(outcome) = "list" THEN "good"
    ELSE "malformed"

\* the cycles in flight other than rec
Others(rec) == cyc (-) SetToBag({rec})

\* a faulty IcalEnds: a failed request ends the whole call of
\* fetchAllCalendars, the identities after it are not fetched
IcalEndsAborting(rec, class, upstream, data) ==
    LET id == IdOrder[rec.idx]
        ok == class = "calendar"
        done == [rec EXCEPT !.results[id] = IF ok THEN "ok" ELSE "failed"]
    IN  /\ files' = IF ok
                    THEN [files EXCEPT ![id] =
                            FilterIcalEvents(variant, data, PRIMARY_FILTERS(Filename(id)))]
                    ELSE files
        /\ Settle(Others(rec),
                  IF ok THEN FetchFrom(done, rec.idx + 1, config)
                  ELSE [rec |-> [done EXCEPT !.pc = "finish"], issued |-> NoRequest],
                  config, configFile,
                  [Note("ical", upstream) EXCEPT !.id = id,
                                                 !.result = IF ok THEN "ok" ELSE "failed"])
        /\ UNCHANGED <<variant, environment, phase, arg, ret>>

\* the rest of fetchCalendar and of fetchAllCalendars once the iCal request
\* of cycle rec came to an end of the given class, data being the response
\* text
IcalEnds(rec, class, upstream, data) ==
    LET id == IdOrder[rec.idx]
        ok == class = "calendar"
    IN  /\ files' = IF ok
                    THEN [files EXCEPT ![id] =
                            FilterIcalEvents(variant, data, PRIMARY_FILTERS(Filename(id)))]
                    ELSE files
        /\ Settle(Others(rec),
                  FetchFrom([rec EXCEPT !.results[id] = IF ok THEN "ok" ELSE "failed"],
                            rec.idx + 1, config),
                  config, configFile,
                  [Note("ical", upstream) EXCEPT !.id = id,
                                                 !.result = IF ok THEN "ok" ELSE "failed"])
        /\ UNCHANGED <<variant, environment, phase, arg, ret>>

\* the response to fetch(url) of fetchCalendar / fetchFromIcal arrives
IcalResponse(rec, outcome) ==
    /\ BagIn(rec, cyc)
    /\ rec.pc = "ical"
    /\ IcalEnds(rec, IcalClass(variant, outcome), IcalUpstream(outcome), outcome.body)

\* a faulty Fallback: fetchFromIcal is called whether or not a URL is set
FallbackUnconditional(rec, cfg) ==
    Request(rec, rec.idx, "ical", UrlOf(cfg, IdOrder[rec.idx]))

\* a faulty Fallback: without a fallback URL the identity counts as fetched
FallbackWithoutUrlSucceeds(rec, cfg) ==
    IF Falsy(UrlOf(cfg, IdOrder[rec.idx]))
    THEN FetchFrom([rec EXCEPT !.results[IdOrder[rec.idx]] = "ok"], rec.idx + 1, cfg)
    ELSE Request(rec, rec.idx, "ical", UrlOf(cfg, IdOrder[rec.idx]))

\* fetchCalendar of part_001:583 after fetchFromJsonApi returned false: the
\* fallback URL is read from config and fetchFromIcal is called
Fallback(rec, cfg) ==
    IF Falsy(UrlOf(cfg, IdOrder[rec.idx]))
    THEN FetchFrom([rec EXCEPT !.results[IdOrder[rec.idx]] = "failed"], rec.idx + 1, cfg)
    ELSE Request(rec, rec.idx, "ical", UrlOf(cfg, IdOrder[rec.idx]))

\* the rest of fetchFromJsonApi, fetchCalendar and fetchAllCalendars once
\* the JSON request of cycle rec came to an end of the given class
JsonEnds(rec, class, upstream, events) ==
    LET id == IdOrder[rec.idx]
        ok == class = "list"
        next == IF ok
                THEN FetchFrom([rec EXCEPT !.results[id] = "ok", !.json[id] = "ok"],
                               rec.idx + 1, config)
                ELSE Fallback([rec EXCEPT !.json[id] = "failed"], config)
    IN  /\ files' = IF ok THEN [files EXCEPT ![id] = JsonEventsToIcal(events, id)]
                    ELSE files
        /\ Settle(Others(rec), next, config, configFile,
                  [Note("json", upstream) EXCEPT !.id = id,
                        !.result = IF ok THEN "ok"
                                   ELSE IF next.issued.id = id THEN "-"
                                   ELSE "failed"])
        /\ UNCHANGED <<variant, environment, phase, arg, ret>>

\* the response to fetch(url) of fetchFromJsonApi arrives
JsonResponse(rec, outcome) ==
    /\ BagIn(rec, cyc)
    /\ rec.pc = "json"
    /\ JsonEnds(rec, JsonClass(outcome), JsonUpstream(outcome), outcome.payload.events)

\* the timeout of a request that has one expires: fetch rejects
Timeout(rec) ==
    /\ BagIn(rec, cyc)
    /\ rec.timeout # NoTimeout
    /\ IF rec.pc = "ical"
       THEN IcalEnds(rec, "timeout", "unreachable", EmptyStr)
       ELSE JsonEnds(rec, "timeout", "unreachable", << >>)

\* ------------------------------------------------------------ specification
OldDoc == BEGIN_VCALENDAR \o CRLF \o END_VCALENDAR

\* what the process finds when it starts: the environment and config.json
BootChoices ==
    {[environment |-> [blessthun |-> Url1, youth |-> Undef],
      file |-> [kind |-> "json", blessthunUrl |-> Url2, youthUrl |-> Undef, lastFetch |-> 1]]}

\* the process has loaded its config; the cache holds what an earlier run left
Init ==
    /\ variant \in Variants
    /\ \E b \in BootChoices : environment = b.environment /\ configFile = b.file
    /\ phase = "loaded"
    /\ config = LoadConfig(variant, environment, configFile)
    /\ files = [id \in Ids |-> IF id = "blessthun" THEN OldDoc ELSE NoDoc]
    /\ clock = 1
    /\ cyc = EmptyBag
    /\ last = Note("boot", "-")
    /\ arg = NoCall
    /\ ret = NoCall

Next ==
    \/ Listen
    \/ Timer
    \/ Resync
    \/ \E header \in AdminHeaders : AdminRefused(header)
    \/ \E header \in AdminHeaders, body \in AdminBodies : AdminUpdate(header, body)
    \/ \E rec \in BagToSet(cyc), outcome \in IcalOutcomes : IcalResponse(rec, outcome)
    \/ \E rec \in BagToSet(cyc), outcome \in JsonOutcomes : JsonResponse(rec, outcome)
    \/ \E rec \in BagToSet(cyc) : Timeout(rec)

Spec == Init /\ [][Next]_vars


\* ------------------------------------------------------- the start of the process
\* the config binding before loadConfig has run
Unloaded == [blessthunUrl |-> Undef, youthUrl |-> Undef, lastFetch |-> NullTime]

\* an environment variable is not set, empty, or a URL
EnvValues == {Undef, EmptyStr, Url1}

\* a key of config.json is missing, empty, or a URL
FileValues == {Undef, EmptyStr, Url2}

ConfigFiles ==
    {NoFile, CorruptFile}
    \cup {[kind |-> "json", blessthunUrl |-> b, youthUrl |-> y, lastFetch |-> t] :
            b \in FileValues, y \in FileValues, t \in {NullTime, 1}}

\* the process starts: any environment, any config.json
InitLoad ==
    /\ variant \in Variants
    /\ environment \in [blessthun : EnvValues, youth : EnvValues]
    /\ configFile \in ConfigFiles
    /\ phase = "boot"
    /\ config = Unloaded
    /\ files = [id \in Ids |-> NoDoc]
    /\ clock = 1
    /\ cyc = EmptyBag
    /\ last = Note("start", "-")
    /\ arg = NoCall
    /\ ret = NoCall

NextLoad == Boot

SpecLoad == InitLoad /\ [][NextLoad]_vars

\* ------------------------------------------------- filterIcalEvents on its own
MaxLines == 4

\* the lines of the documents: the two markers, a summary of each family (the
\* second one also holds the excluded text), and a line that begins with a
\* space, which continues the line before it when the break between them is
\* taken as a fold
DocLines ==
    {BEGIN_VEVENT, END_VEVENT,
     SUMMARY_COLON \o <<"BlessThun", "SP", "Party">>,
     SUMMARY_COLON \o <<"Youth", "SP", "Revival", "SP", "Champions", "SP", "League",
                        "SP", "Night">>,
     <<"SP", "more">>}

Breaks == {<<"CR", "LF">>, <<"LF">>, <<"CR">>}

\* the text of the lines, the break after the i-th line being breaks[1] for
\* odd i and breaks[2] for even i; no break after the last line
RECURSIVE Compose(_, _, _)
Compose(lines, breaks, i) ==
    IF i > Len(lines) THEN << >>
    ELSE IF i = Len(lines) THEN lines[i]
    ELSE lines[i] \o breaks[2 - (i % 2)] \o Compose(lines, breaks, i + 1)

LineSeqs == UNION {[1..n -> DocLines] : n \in 0..MaxLines}

Documents == {Compose(lines, breaks, 1) : lines \in LineSeqs, breaks \in [1..2 -> Breaks]}

\* the generations that filter
FilterVariants == {"rename", "matches", "json"}

\* the array `lines` the loop of filterIcalEvents runs over
FilterLines(v, icalData) ==
    IF v = "matches" THEN SplitLines(icalData) ELSE SplitLines(Unfold(icalData))

\* a response text and the filter text of its file, before filterIcalEvents
InitFilter ==
    /\ variant \in FilterVariants
    /\ arg \in [doc : Documents, filterText : {BlessThunText, YouthRevivalText}]
    /\ ret = NoCall
    /\ phase = "input"
    /\ environment = [blessthun |-> Undef, youth |-> Undef]
    /\ configFile = NoFile
    /\ config = Unloaded
    /\ files = [id \in Ids |-> NoDoc]
    /\ clock = 1
    /\ cyc = EmptyBag
    /\ last = Note("start", "-")

\* data = filterIcalEvents(data, filterText)
Filter ==
    /\ phase = "input"
    /\ phase' = "filtered"
    /\ ret' = [lines |-> FilterLines(variant, arg.doc),
               once |-> FilterIcalEvents(variant, arg.doc, arg.filterText),
               twice |-> EmptyStr]
    /\ UNCHANGED <<variant, environment, config, configFile, files, clock, cyc, last, arg>>

\* the filtered document is filtered again with the same filter text
Refilter ==
    /\ phase = "filtered"
    /\ phase' = "refiltered"
    /\ ret' = [ret EXCEPT !.twice = FilterIcalEvents(variant, ret.once, arg.filterText)]
    /\ UNCHANGED <<variant, environment, config, configFile, files, clock, cyc, last, arg>>

NextFilter == Filter \/ Refilter

SpecFilter == InitFilter /\ [][NextFilter]_vars

\* ------------------------------------------------- jsonEventsToIcal on its own
MaxEvents == 2

\* start and end of an upstream record: the timestamps as the JSON API
\* formats them (a day, an evening), a timestamp without seconds, one with
\* slashes in its date, and a record that lacks its start
Spans ==
    {[start |-> <<"2", "0", "2", "6", "-", "0", "3", "-", "2", "0", "SP", "0", "0", ":", "0", "0", ":", "0", "0">>,
      end |-> <<"2", "0", "2", "6", "-", "0", "3", "-", "2", "3", "SP", "0", "0", ":", "0", "0", ":", "0", "0">>],
     [start |-> <<"2", "0", "2", "6", "-", "0", "2", "-", "2", "2", "SP", "1", "7", ":", "0", "0", ":", "0", "0">>,
      end |-> <<"2", "0", "2", "6", "-", "0", "2", "-", "2", "2", "SP", "1", "9", ":", "0", "0", ":", "0", "0">>],
     [start |-> <<"2", "0", "2", "6", "-", "0", "2", "-", "2", "2", "SP", "1", "7", ":", "0", "0">>,
      end |-> <<"2", "0", "2", "6", "-", "0", "2", "-", "2", "2", "SP", "1", "9", ":", "0", "0">>],
     [start |-> <<"2", "0", "2", "6", "/", "0", "3", "/", "2", "0", "SP", "0", "0", ":", "0", "0", ":", "0", "0">>,
      end |-> <<"2", "0", "2", "6", "/", "0", "3", "/", "2", "3", "SP", "0", "0", ":", "0", "0", ":", "0", "0">>],
     [start |-> Undef,
      end |-> <<"2", "0", "2", "6", "-", "0", "3", "-", "2", "3", "SP", "0", "0", ":", "0", "0", ":", "0", "0">>]}

Titles ==
    {<<"BlessThun", "SP">>,
     <<"Youth", "SP", "Revival", "SP", "Champions", "SP", "League", "SP", "Night">>}

UpstreamEvents ==
    {[uid |-> <<"u-1">>, id |-> <<"17">>, title |-> t, allDay |-> a,
      start |-> sp.start, end |-> sp.end, where |-> Undef, description |-> Undef] :
        t \in Titles, a \in BOOLEAN, sp \in Spans}

EventLists == UNION {[1..n -> UpstreamEvents] : n \in 0..MaxEvents}

\* what response.json() gave: a list of records, or a value that is no list
ConvertPayloads ==
    {[list |-> TRUE, events |-> l] : l \in EventLists}
    \cup {[list |-> FALSE, events |-> << >>]}

\* the parsed payload and the identity, before the test Array.isArray
InitConvert ==
    /\ variant = "json"
    /\ arg \in [payload : ConvertPayloads, type : Ids]
    /\ ret = NoCall
    /\ phase = "parsed"
    /\ environment = [blessthun |-> Undef, youth |-> Undef]
    /\ configFile = NoFile
    /\ config = Unloaded
    /\ files = [id \in Ids |-> NoDoc]
    /\ clock = 1
    /\ cyc = EmptyBag
    /\ last = Note("start", "-")

\* fetchFromJsonApi from the Array.isArray test on: ok = what it returns, doc
\* = what jsonEventsToIcal returned and writeFileSync wrote
Convert ==
    /\ phase = "parsed"
    /\ phase' = "converted"
    /\ ret' = IF ~arg.payload.list \/ JsonEventsToIcalThrows(arg.payload.events)
              THEN [ok |-> FALSE, doc |-> NoDoc]
              ELSE [ok |-> TRUE, doc |-> JsonEventsToIcal(arg.payload.events, arg.type)]
    /\ files' = IF ret'.ok THEN [files EXCEPT ![arg.type] = ret'.doc] ELSE files
    /\ UNCHANGED <<variant, environment, config, configFile, clock, cyc, last, arg>>

NextConvert == Convert

SpecConvert == InitConvert /\ [][NextConvert]_vars

\* ------------------------------------------------------------------ claims
InFlight == BagToSet(cyc)

\* the paths of the requests cycle rec issued for identity id, in order
PathsOf(rec, id) ==
    LET mine == SelectSeq(rec.reqs, LAMBDA r : r.id = id)
    IN  [i \in 1..Len(mine) |-> mine[i].path]

\* the documents fetchFromJsonApi can write for identity id
ConvertedDocs(id) ==
    {JsonEventsToIcal(o.payload.events, id) : o \in {x \in JsonOutcomes : JsonClass(x) = "list"}}

\* C1: at most one call of fetchAllCalendars is in progress at any time; a
\* trigger that arrives while a cycle is in flight does not begin to issue
\* requests before that cycle has completed.
C1_SingleFlight == BagCardinality(cyc) <= 1

\* C2: when the attempt of an identity ends in failure (upstream unreachable,
\* a non-success status, a malformed payload), the cached document of the
\* identity is the same after the attempt as before it, and no step ever
\* removes a cached document.
C2_FailureKeepsDocument ==
    [][/\ (last'.kind \in {"ical", "json"}
            /\ last'.upstream \in {"unreachable", "rejected", "malformed"})
          => files'[last'.id] = files[last'.id]
       /\ \A id \in Ids : files[id] # NoDoc => files'[id] \notin {NoDoc, EmptyStr}]_vars

\* C3: in the JSON generation, for each identity of a cycle the JSON request
\* comes first; the iCal request is issued exactly when the JSON path failed
\* for the identity and a fallback URL is set; after a JSON success the
\* converted document is in the cache, the identity counts as succeeded and
\* no iCal request is made for it.
C3_JsonThenIcal ==
    variant = "json" =>
        /\ \A rec \in InFlight : \A id \in Ids :
            /\ IsPrefix(PathsOf(rec, id), <<"json", "ical">>)
            /\ PathsOf(rec, id) = <<"json", "ical">>
                <=> (rec.json[id] = "failed" /\ ~Falsy(UrlOf(config, id)))
            /\ rec.json[id] = "ok"
                => (rec.results[id] = "ok" /\ PathsOf(rec, id) = <<"json">>)
        /\ (last.kind = "json" /\ last.upstream = "good")
            => /\ last.result = "ok"
               /\ last.issued.id # last.id
               /\ files[last.id] \in ConvertedDocs(last.id)
        /\ (last.kind = "json" /\ last.upstream # "good")
            => ((last.issued.id = last.id /\ last.issued.path = "ical")
                <=> ~Falsy(UrlOf(config, last.id)))

\* a cycle whose JSON request for blessthun failed and whose fallback then
\* succeeded is in flight, and a JSON request for blessthun has just succeeded
C3_Witness ==
    /\ variant = "json"
    /\ last.kind = "json" /\ last.upstream = "good" /\ last.id = "blessthun"
    /\ \E rec \in InFlight :
        rec.json["blessthun"] = "failed" /\ rec.results["blessthun"] = "ok"

\* C4: a failure at one identity never aborts the cycle: a cycle that waits
\* at an identity has a flag for every identity before it, after a failure
\* the next identity is taken up, and the call returns one flag per identity.
C4_NoAbort ==
    /\ last.finished => \A id \in Ids : last.results[id] \in {"ok", "failed"}
    /\ \A rec \in InFlight :
        /\ rec.pc \in {"json", "ical"}
        /\ \A k \in 1..(rec.idx - 1) : rec.results[IdOrder[k]] \in {"ok", "failed"}
    /\ (last.kind \in {"ical", "json"} /\ last.result = "failed" /\ last.id = "blessthun")
        => \/ last.issued.id = "youth"
           \/ last.finished /\ last.results["youth"] = "failed" /\ Falsy(config.youthUrl)

\* a call has returned: blessthun failed, youth succeeded
C4_Witness ==
    /\ last.finished
    /\ last.results["blessthun"] = "failed"
    /\ last.results["youth"] = "ok"

\* C5: a cycle that has processed all identities has set config.lastFetch to
\* the timestamp it took and has written the config to config.json, whether
\* all, some or none of the identities succeeded.
C5_LastFetchStamped ==
    last.finished => (config.lastFetch = clock /\ configFile = SaveConfig(config))

\* a call has returned with both identities failed, at a time later than the
\* lastFetch the process started with
C5_Witness ==
    /\ last.finished
    /\ \A id \in Ids : last.results[id] = "failed"
    /\ clock > 1

\* C6: every request in flight, on the JSON path and on the iCal path, is
\* bounded by a timeout, so that a cycle cannot wait for ever.
C6_EveryRequestTimed == \A rec \in InFlight : rec.timeout # NoTimeout

\* C7: never do two cycles both wait for the response they will write to the
\* document of the same identity.
C7_OneWriterPerDocument ==
    \A k \in 1..Len(IdOrder) :
        LET waiting == {rec \in InFlight : rec.idx = k}
        IN  /\ Cardinality(waiting) <= 1
            /\ \A rec \in waiting : CopiesIn(rec, cyc) <= 1

\* C8: on the iCal path a body without BEGIN:VCALENDAR makes the identity
\* fail, and the cached document is not a text without the marker.
C8_MarkerRequired ==
    (last.kind = "ical" /\ last.upstream = "malformed")
        => /\ last.result = "failed"
           /\ files[last.id] = NoDoc \/ Includes(files[last.id], BEGIN_VCALENDAR)

\* C9: an admin update has stored and saved its URLs and started a cycle, and
\* every iCal request of that cycle goes to the URL the update stored for the
\* identity.
C9_UpdateUsesStored ==
    /\ last.kind = "admin"
        => (configFile = SaveConfig(config) /\ (last.finished \/ last.issued # NoRequest))
    /\ last.issued.stored # Undef => last.issued.url = last.issued.stored

\* C10: loadConfig gives, for each identity, the environment value when it is
\* set and not empty, the value of config.json only otherwise, and lastFetch
\* as config.json has it (null without it).
C10_EnvironmentFirst ==
    phase = "loaded" =>
        /\ \A id \in Ids :
            LET env == IF id = "blessthun" THEN environment.blessthun ELSE environment.youth
            IN  /\ ~Falsy(env) => UrlOf(config, id) = env
                /\ (Falsy(env) /\ configFile.kind = "json" /\ ~Falsy(UrlOf(configFile, id)))
                    => UrlOf(config, id) = UrlOf(configFile, id)
        /\ config.lastFetch = IF configFile.kind = "json" THEN configFile.lastFetch
                              ELSE NullTime

\* ---- the filter called on its own (SpecFilter)
\* the lines of an emitted document (one empty line when it is empty)
LinesOf(text) == SplitLines(text)

\* The event blocks of a line sequence as the specification counts them: a
\* block runs from a BEGIN:VEVENT met outside a block to the first END:VEVENT
\* after it, and a BEGIN:VEVENT inside it is one of its content lines. A
\* block the document ends in (closed = FALSE) has no END:VEVENT.
RECURSIVE BlocksFrom(_, _, _)
BlocksFrom(lines, i, open) ==
    IF i > Len(lines)
    THEN IF open > 0 THEN {[from |-> open, to |-> Len(lines), closed |-> FALSE]} ELSE {}
    ELSE IF open = 0
    THEN BlocksFrom(lines, i + 1, IF lines[i] = BEGIN_VEVENT THEN i ELSE 0)
    ELSE IF lines[i] = END_VEVENT
    THEN {[from |-> open, to |-> i, closed |-> TRUE]} \cup BlocksFrom(lines, i + 1, 0)
    ELSE BlocksFrom(lines, i + 1, open)

Blocks(lines) == BlocksFrom(lines, 1, 0)

\* no END:VEVENT stands outside a block
NoStrayEnd(lines) ==
    \A i \in 1..Len(lines) :
        lines[i] = END_VEVENT => \E b \in Blocks(lines) : b.closed /\ b.to = i

\* the lines left when the blocks of `dropped` are taken out as wholes
RECURSIVE Without(_, _, _)
Without(lines, dropped, i) ==
    IF i > Len(lines) THEN << >>
    ELSE IF \E b \in dropped : b.from <= i /\ i <= b.to THEN Without(lines, dropped, i + 1)
    ELSE <<lines[i]>> \o Without(lines, dropped, i + 1)

\* line for line the same, but for a summary line, which may be rewritten
SameButSummaries(a, b) ==
    /\ Len(a) = Len(b)
    /\ \A i \in 1..Len(a) :
          a[i] = b[i] \/ (StartsWith(a[i], SUMMARY_COLON) /\ StartsWith(b[i], SUMMARY_COLON))

\* C11: the filtered document is the input with some of its event blocks
\* taken out as wholes: every block is emitted with all its lines in order
\* (its summary line possibly rewritten) or not at all, never in part.
C11_BlocksWholeOrAbsent ==
    (phase = "filtered" /\ NoStrayEnd(ret.lines))
        => \E dropped \in SUBSET Blocks(ret.lines) :
              SameButSummaries(LinesOf(JoinCrLf(Without(ret.lines, dropped, 1))),
                               LinesOf(ret.once))

\* the document is one closed event block with a BEGIN:VEVENT among its
\* content lines
OneBlockWithNestedBegin(lines) ==
    /\ Blocks(lines) = {[from |-> 1, to |-> Len(lines), closed |-> TRUE]}
    /\ \E i \in 2..Len(lines) : lines[i] = BEGIN_VEVENT

\* C20: a BEGIN:VEVENT met inside a block is a content line of that block:
\* the lines accumulated before it are kept, and at END:VEVENT the block is
\* emitted with all of them or dropped as a unit.
C20_NestedBeginIsContent ==
    (phase = "filtered" /\ OneBlockWithNestedBegin(ret.lines))
        => \/ ret.once = EmptyStr
           \/ SameButSummaries(ret.lines, LinesOf(ret.once))

\* the document is one closed event block, without a BEGIN:VEVENT among its
\* content lines, and each of its summary lines (there is one) satisfies P
OneBlockWithSummaries(lines, P(_)) ==
    /\ Blocks(lines) = {[from |-> 1, to |-> Len(lines), closed |-> TRUE]}
    /\ \A i \in 2..Len(lines) : lines[i] # BEGIN_VEVENT
    /\ \E i \in 1..Len(lines) : StartsWith(lines[i], SUMMARY_COLON)
    /\ \A i \in 1..Len(lines) : StartsWith(lines[i], SUMMARY_COLON) => P(lines[i])

HoldsExcludedText(line) == \E ex \in EXCLUDE_FILTERS : Includes(line, ex)

\* C12: a block whose summary contains an exclude substring is dropped, in
\* the generation that keeps all blocks and renames and in the one that keeps
\* only matches, also when the summary contains the family name.
C12_ExcludedAlwaysDropped ==
    (phase = "filtered" /\ OneBlockWithSummaries(ret.lines, HoldsExcludedText))
        => ret.once = EmptyStr

\* C13: filtering is idempotent: the filtered document, filtered again with
\* the same filter text, comes out the same character for character, whatever
\* the line breaks and folds of the input were.
C13_FilterIdempotent ==
    phase = "refiltered" => ret.twice = ret.once

\* the length of the line break the text begins with (lone CR, lone LF or
\* CRLF), 0 when it begins with none
BreakAt(s) ==
    IF s = << >> THEN 0
    ELSE IF Head(s) = "CR" /\ Len(s) >= 2 /\ s[2] = "LF" THEN 2
    ELSE IF Head(s) \in {"CR", "LF"} THEN 1
    ELSE 0

\* The logical lines of a text as the specification counts them: a break of
\* any of the three conventions that is followed by one space or tab
\* continues the line (break and space are taken out), every other break
\* ends it.
RECURSIVE LogicalFrom(_, _)
LogicalFrom(s, cur) ==
    IF s = << >> THEN <<cur>>
    ELSE LET n == BreakAt(s)
         IN  IF n = 0 THEN LogicalFrom(Tail(s), Append(cur, Head(s)))
             ELSE IF Len(s) > n /\ s[n + 1] \in {"SP", "HT"}
             THEN LogicalFrom(DropFirst(s, n + 1), cur)
             ELSE <<cur>> \o LogicalFrom(DropFirst(s, n), << >>)

LogicalLines(text) == LogicalFrom(text, << >>)

\* no line of the text is folded: no break is followed by a space or tab
Unfolded(text) ==
    \A i \in 1..Len(text) :
        LET rest == DropFirst(text, i - 1)
        IN  BreakAt(rest) > 0 =>
                ~(Len(rest) > BreakAt(rest) /\ rest[BreakAt(rest) + 1] \in {"SP", "HT"})

\* C14: the lines the filter walks over are the logical lines of the input,
\* a break of any of the three conventions followed by a space or tab being
\* a continuation; for a document without folded lines they are the lines of
\* a plain split.
C14_UnfoldAllConventions ==
    (phase = "filtered" /\ variant # "matches")
        => /\ ret.lines = LogicalLines(arg.doc)
           /\ Unfolded(arg.doc) => ret.lines = SplitLines(arg.doc)

\* the line holds the family name the document is filtered for and no
\* excluded text
NamesFamily(line) == Includes(line, arg.filterText) /\ ~HoldsExcludedText(line)

\* C15: a kept block whose summary contains the family name anywhere is
\* emitted with the summary line "SUMMARY:" + the canonical label and every
\* other line as it was.
C15_SummaryCollapses ==
    (/\ phase = "filtered"
     /\ OneBlockWithSummaries(ret.lines, NamesFamily)
     /\ Cardinality({i \in 1..Len(ret.lines) : StartsWith(ret.lines[i], SUMMARY_COLON)}) = 1)
        => LinesOf(ret.once) =
              [i \in 1..Len(ret.lines) |->
                  IF StartsWith(ret.lines[i], SUMMARY_COLON)
                  THEN SUMMARY_COLON \o arg.filterText
                  ELSE ret.lines[i]]

\* ---- the converter called on its own (SpecConvert)
\* the title holds a substring of the exclude list
TitleExcluded(evt) == HoldsExcludedText(Str(evt.title))

NotExcluded(evt) == ~TitleExcluded(evt)

\* every record that is not excluded carries a start and an end text
HaveTimes(events) ==
    \A i \in 1..Len(events) :
        NotExcluded(events[i]) => (events[i].start # Undef /\ events[i].end # Undef)

\* the lines are the blocks of the events, one BEGIN:VEVENT..END:VEVENT block
\* each, in the order of the events; a block shows the title of its event in
\* its summary line and is date-only exactly when the event is all-day
RECURSIVE BlocksOf(_, _)
BlocksOf(lines, events) ==
    IF events = << >> THEN lines = << >>
    ELSE /\ lines # << >>
         /\ lines[1] = BEGIN_VEVENT
         /\ \E j \in 2..Len(lines) :
               /\ lines[j] = END_VEVENT
               /\ \A k \in 2..(j - 1) : lines[k] \notin {BEGIN_VEVENT, END_VEVENT}
               /\ \E k \in 2..(j - 1) :
                     /\ StartsWith(lines[k], SUMMARY_COLON)
                     /\ Includes(lines[k], Trim(Head(events).title))
               /\ \E k \in 2..(j - 1) :
                     /\ StartsWith(lines[k], <<"DTSTART">>)
                     /\ Includes(lines[k], <<"VALUE=DATE">>) <=> Head(events).allDay
               /\ BlocksOf(DropFirst(lines, j), Tail(events))

\* The lines of a long text, counted by position instead of by recursion
\* over its characters: BreakEnds are the positions where a break (CRLF,
\* lone LF, lone CR) ends, and line k runs from the end of break k - 1 to
\* the start of break k.
BreakEnds(s) ==
    {i \in 1..Len(s) : s[i] = "LF" \/ (s[i] = "CR" /\ (i = Len(s) \/ s[i + 1] # "LF"))}

TextLines(s) ==
    LET ends == BreakEnds(s)
        BreakEnd(k) ==
            IF k = 0 THEN 0
            ELSE CHOOSE e \in ends : Cardinality({x \in ends : x <= e}) = k
        BreakStart(k) ==
            IF k > Cardinality(ends) THEN Len(s) + 1
            ELSE LET e == BreakEnd(k)
                 IN  IF s[e] = "LF" /\ e > 1 /\ s[e - 1] = "CR" THEN e - 1 ELSE e
    IN  [k \in 1..(Cardinality(ends) + 1) |->
            SubSeq(s, BreakEnd(k - 1) + 1, BreakStart(k) - 1)]

\* the document is the header of the identity, the blocks of the events
\* that are not excluded, and the closing line
ConvertedDocument(doc, events, calendarName) ==
    LET lines == TextLines(doc)
        n == Len(lines)
    IN  /\ n >= 6
        /\ lines[1] = BEGIN_VCALENDAR
        /\ StartsWith(lines[2], <<"VERSION", ":">>)
        /\ StartsWith(lines[3], <<"PRODID", ":">>) /\ Includes(lines[3], <<calendarName>>)
        /\ StartsWith(lines[4], <<"X-WR-TIMEZONE", ":">>)
        /\ BlocksOf(SubSeq(lines, 5, n - 2), SelectSeq(events, NotExcluded))
        /\ lines[n - 1] = END_VCALENDAR
        /\ lines[n] = EmptyStr
        /\ events = << >> => n = 6

RECURSIVE DigitsOnly(_)
DigitsOnly(s) ==
    IF s = << >> THEN << >>
    ELSE IF Head(s) \in Digits THEN <<Head(s)>> \o DigitsOnly(Tail(s))
    ELSE DigitsOnly(Tail(s))

\* the payload is a list of one record, not excluded, with start and end
OneEvent(allDay) ==
    /\ arg.payload.list
    /\ Len(arg.payload.events) = 1
    /\ NotExcluded(arg.payload.events[1])
    /\ HaveTimes(arg.payload.events)
    /\ arg.payload.events[1].allDay = allDay

HasLine(doc, line) == \E k \in 1..Len(TextLines(doc)) : TextLines(doc)[k] = line

\* C17: an all-day record gives date-only DTSTART and DTEND lines whose
\* values are the first 8 digits of the start and of the end text, all
\* characters that are no digits removed; no day is added or subtracted.
C17_AllDayDates ==
    (phase = "converted" /\ OneEvent(TRUE))
        => /\ ret.ok
           /\ HasLine(ret.doc, <<"DTSTART", ";", "VALUE=DATE", ":">>
                               \o TakeFirst(DigitsOnly(arg.payload.events[1].start), 8))
           /\ HasLine(ret.doc, <<"DTEND", ";", "VALUE=DATE", ":">>
                               \o TakeFirst(DigitsOnly(arg.payload.events[1].end), 8))

\* the digits of a timestamp with "T" between the 8 digits of the date and
\* the digits of the time
DateTimeValue(s) ==
    TakeFirst(DigitsOnly(s), 8) \o <<"T">> \o DropFirst(DigitsOnly(s), 8)

\* C18: a timed record gives DTSTART and DTEND lines with the qualifier
\* TZID=Europe/Zurich and the digits of the timestamp, "T" standing between
\* date and time, for every timestamp that has a date and a time portion.
C18_TimedValues ==
    (phase = "converted" /\ OneEvent(FALSE))
        => /\ ret.ok
           /\ HasLine(ret.doc, <<"DTSTART", ";", "TZID=Europe/Zurich", ":">>
                               \o DateTimeValue(arg.payload.events[1].start))
           /\ HasLine(ret.doc, <<"DTEND", ";", "TZID=Europe/Zurich", ":">>
                               \o DateTimeValue(arg.payload.events[1].end))

\* ---- the server (Spec)
\* C19: when the JSON request of an identity has failed and no fallback URL
\* is configured for it, the identity is marked failed for the cycle, no
\* request is issued for it (the only request it had is the JSON one) and no
\* file is written.
C19_NoUrlNoFallback ==
    [][(last'.kind = "json" /\ last'.upstream # "good" /\ Falsy(UrlOf(config, last'.id)))
        => /\ last'.result = "failed"
           /\ last'.issued.id # last'.id
           /\ last'.issued.path # "ical"
           /\ files' = files
           /\ last'.finished => last'.results[last'.id] = "failed"
           /\ ~last'.finished =>
                 \E rec \in BagToSet(cyc') :
                     /\ rec.results[last'.id] = "failed"
                     /\ PathsOf(rec, last'.id) = <<"json">>]_vars

\* the JSON request of youth, which has no fallback URL, has failed and the
\* cycle has ended with youth marked failed
C19_Witness ==
    /\ variant = "json"
    /\ last.kind = "json" /\ last.id = "youth" /\ last.upstream # "good"
    /\ Falsy(UrlOf(config, "youth"))
    /\ last.result = "failed"
    /\ last.finished /\ last.results["youth"] = "failed"

\* ---- the filter called on its own (SpecFilter), continued
\* the output lines of the loop of generation v for a sequence of lines
LoopOutput(v, lines, filterText) ==
    IF v = "matches" THEN FilterLoopMatches(FilterInit, lines, filterText).out
    ELSE FilterLoopRename(FilterInit, lines, filterText, v = "json").out

\* the lines without the summary lines that follow the first one
RECURSIVE FirstSummaryOnly(_, _)
FirstSummaryOnly(lines, seen) ==
    IF lines = << >> THEN << >>
    ELSE IF StartsWith(Head(lines), SUMMARY_COLON)
    THEN (IF seen THEN << >> ELSE <<Head(lines)>>) \o FirstSummaryOnly(Tail(lines), TRUE)
    ELSE <<Head(lines)>> \o FirstSummaryOnly(Tail(lines), seen)

SummaryLines(lines) == SelectSeq(lines, LAMBDA l : StartsWith(l, SUMMARY_COLON))

AlwaysTrue(line) == TRUE

\* C21: the summary that decides over a block and its renaming is the value
\* of the first SUMMARY line of the block: a block with further SUMMARY lines
\* is kept or dropped, and its first summary line is emitted, as the same
\* block without those further lines is.
C21_FirstSummaryDecides ==
    (phase = "filtered" /\ OneBlockWithSummaries(ret.lines, AlwaysTrue))
        => LET alone == LoopOutput(variant, FirstSummaryOnly(ret.lines, FALSE),
                                   arg.filterText)
               out == LoopOutput(variant, ret.lines, arg.filterText)
           IN  /\ ret.once = JoinCrLf(out)
               /\ (out = << >>) <=> (alone = << >>)
               /\ out # << >> => Head(SummaryLines(out)) = Head(SummaryLines(alone))

\* the closed blocks of the lines that have a summary line satisfying P
BlocksWith(lines, P(_)) ==
    {b \in Blocks(lines) :
        b.closed /\ \E i \in b.from..b.to : StartsWith(lines[i], SUMMARY_COLON) /\ P(lines[i])}

\* the closed blocks of the lines whose summary, the first SUMMARY line of
\* the block, satisfies P
BlocksSummarized(lines, P(_)) ==
    {b \in Blocks(lines) :
        b.closed /\ \E i \in b.from..b.to :
                       /\ StartsWith(lines[i], SUMMARY_COLON)
                       /\ \A j \in b.from..(i - 1) : ~StartsWith(lines[j], SUMMARY_COLON)
                       /\ P(lines[i])}

HoldsKeepText(line) == Includes(line, arg.filterText)

ClosedBlocks(lines) == {b \in Blocks(lines) : b.closed}

\* C22: in the generation that keeps only matches every block of the output
\* has a summary with the keep text, and no more blocks come out than blocks
\* whose summary holds the keep text went in (a block without it, or without
\* SUMMARY line, is absent); in the generations that keep all and rename,
\* every block whose summary lines hold no excluded text comes out, matching
\* or not.
C22_KeepOnlyMatches ==
    phase = "filtered" =>
        LET out == LinesOf(ret.once)
        IN  /\ variant = "matches" =>
                 /\ ClosedBlocks(out) = BlocksSummarized(out, HoldsKeepText)
                 /\ Cardinality(ClosedBlocks(out))
                       <= Cardinality(BlocksSummarized(ret.lines, HoldsKeepText))
            /\ variant # "matches" =>
                 Cardinality(ClosedBlocks(out))
                    >= Cardinality(ClosedBlocks(ret.lines)
                                   \ BlocksWith(ret.lines, HoldsExcludedText))

\* the lines that lie in no block, in their order
RECURSIVE OutsideFrom(_, _)
OutsideFrom(lines, i) ==
    IF i > Len(lines) THEN << >>
    ELSE IF \E b \in Blocks(lines) : b.from <= i /\ i <= b.to THEN OutsideFrom(lines, i + 1)
    ELSE <<lines[i]>> \o OutsideFrom(lines, i + 1)

Outside(lines) == OutsideFrom(lines, 1)

\* a is b with some lines left out
RECURSIVE IsSubsequence(_, _)
IsSubsequence(a, b) ==
    IF a = << >> THEN TRUE
    ELSE IF b = << >> THEN FALSE
    ELSE IF Head(a) = Head(b) THEN IsSubsequence(Tail(a), Tail(b))
    ELSE IsSubsequence(a, Tail(b))

\* a is b with some lines left out and some summary lines rewritten
RECURSIVE IsSubsequenceButSummaries(_, _)
IsSubsequenceButSummaries(a, b) ==
    IF a = << >> THEN TRUE
    ELSE IF b = << >> THEN FALSE
    ELSE \/ /\ \/ Head(a) = Head(b)
               \/ StartsWith(Head(a), SUMMARY_COLON) /\ StartsWith(Head(b), SUMMARY_COLON)
            /\ IsSubsequenceButSummaries(Tail(a), Tail(b))
         \/ IsSubsequenceButSummaries(a, Tail(b))

\* C23: the filter that keeps all and renames emits every logical line that
\* lies outside the blocks, unchanged, and emits its lines in the order of
\* the input: the output is the input with lines left out (and summaries
\* rewritten), none of the lines outside blocks among those left out.
C23_OutsideLinesPass ==
    (phase = "filtered" /\ variant # "matches")
        => LET out == LoopOutput(variant, ret.lines, arg.filterText)
           IN  /\ ret.once = JoinCrLf(out)
               /\ IsSubsequence(Outside(ret.lines), out)
               /\ IsSubsequenceButSummaries(out, ret.lines)

\* C27: what the filter emits after the END:VEVENT of a block does not
\* depend on that block: the output of the document is the output of the
\* lines up to that END:VEVENT followed by the output of the lines after it,
\* filtered on their own (so an END:VEVENT outside a block is handled the
\* same whatever came before, and brings no SUMMARY line with it).
C27_NoStateAcrossBlocks ==
    phase = "filtered" =>
        /\ ret.once = JoinCrLf(LoopOutput(variant, ret.lines, arg.filterText))
        /\ \A b \in ClosedBlocks(ret.lines) :
              LoopOutput(variant, ret.lines, arg.filterText)
                 = LoopOutput(variant, SubSeq(ret.lines, 1, b.to), arg.filterText)
                   \o LoopOutput(variant, SubSeq(ret.lines, b.to + 1, Len(ret.lines)),
                                 arg.filterText)

\* ---- the server (Spec), continued
\* the lines of a document, a line break at its end not counted as a line
DocumentLines(doc) ==
    LET lines == TextLines(doc)
    IN  IF Len(lines) > 1 /\ lines[Len(lines)] = EmptyStr
        THEN SubSeq(lines, 1, Len(lines) - 1)
        ELSE lines

\* the document begins with BEGIN:VCALENDAR, ends with END:VCALENDAR, and
\* every BEGIN:VEVENT in it is followed by its END:VEVENT before the next
\* BEGIN:VEVENT or the end
WellFormedDocument(doc) ==
    LET lines == DocumentLines(doc)
    IN  /\ lines[1] = BEGIN_VCALENDAR
        /\ lines[Len(lines)] = END_VCALENDAR
        /\ \A b \in Blocks(lines) :
              b.closed /\ \A i \in (b.from + 1)..b.to : lines[i] # BEGIN_VEVENT
        /\ NoStrayEnd(lines)

\* C24: every document the cache holds for an identity begins with
\* BEGIN:VCALENDAR, ends with END:VCALENDAR and contains only complete event
\* blocks, whichever path wrote it.
C24_PersistedWellFormed ==
    \A id \in Ids : files[id] # NoDoc => WellFormedDocument(files[id])

\* C25: a call of fetchAllCalendars never writes the document of an identity
\* after a call that began later has written it: when a response has been
\* written for an identity, no call in flight that began after the writing
\* call has its result for that identity already.
C25_LaterCycleWins ==
    (last.kind \in {"ical", "json"} /\ last.result = "ok")
        => \A rec \in InFlight :
              (IF last.finished THEN rec.rank >= last.rank ELSE rec.rank > last.rank)
                  => rec.results[last.id] # "ok"

\* C26: every iCal request of a call of fetchAllCalendars carries the URL
\* that config held for its identity when the call began, so that one call
\* never fetches one identity with the URL from before an admin update and
\* another with the URL from after it
C26_OneConfigVersion ==
    last.issued.path = "ical" => last.issued.url = last.issued.began

\* an iCal request for the second identity issued by a call during which an
\* admin update replaced that identity's URL
C26_MixedVersions ==
    /\ last.issued.path = "ical"
    /\ last.issued.id = IdOrder[2]
    /\ last.issued.url # last.issued.began

\* C28: config.lastFetch never moves backwards, however the calls of
\* fetchAllCalendars interleave, and every macrotask that writes config.json
\* (the end of a call, an admin update) leaves in the file the lastFetch that
\* config holds in memory
C28_LastFetchMonotone ==
    [][/\ config'.lastFetch >= config.lastFetch
       /\ (configFile' # configFile \/ last'.finished \/ last'.kind = "admin")
              => configFile'.lastFetch = config'.lastFetch]_vars

\* a call has ended and stamped a later lastFetch than the process started
\* with, while another call is still in flight
C28_Witness ==
    /\ last.finished
    /\ InFlight # {}
    /\ config.lastFetch > 1
    /\ configFile.lastFetch = config.lastFetch

\* the credentials the admin routes are meant for: the Basic scheme with
\* ADMIN_USER, a colon and ADMIN_PASS
ValidCredentials(header) ==
    header.scheme = "Basic" /\ header.cred = ADMIN_USER \o <<":">> \o ADMIN_PASS

UrlsOf(cfg) == [id \in Ids |-> UrlOf(cfg, id)]

\* C29: the URLs of config change only in an admin update that carried the
\* valid Basic credentials; every other step (a call from the timer, from
\* the start or from a resync, and what follows from it) leaves config as it
\* was but for lastFetch; a request to an admin route with no or with wrong
\* credentials is never handled as an update and, answered with 401, leaves
\* config, config.json and the cached documents as they were and starts no
\* call
C29_UrlsOnlyByAdmin ==
    [][/\ UrlsOf(config') # UrlsOf(config)
              => (last'.kind = "admin" /\ ValidCredentials(last'.header))
       /\ last'.kind = "admin" => ValidCredentials(last'.header)
       /\ last'.kind = "admin401"
              => (/\ ~ValidCredentials(last'.header)
                  /\ UNCHANGED <<config, configFile, files, cyc>>)]_vars

\* an update whose Authorization header holds a password other than
\* ADMIN_PASS has replaced a URL
C29_WrongPasswordUpdates ==
    /\ last.kind = "admin"
    /\ ~ValidCredentials(last.header)
    /\ config.blessthunUrl \in {Url1, Url2}

=============================================================================
